---- MODULE Spec2Model ----
(***************************************************************************)
(* Setup / listen / teardown lifecycle of aws-sns-listener.                *)
(*                                                                         *)
(* The repository holds three entry points, each modelled here as one     *)
(* value of the variable "variant":                                        *)
(*   "ListenToTopic"  pkg/listener/listener.go  ListenToTopic, which polls *)
(*                    with listenToQueue of pkg/listener/queue.go and      *)
(*                    tears down with deferred calls;                      *)
(*   "Listener"       the Listener type (Setup, Listen, Teardown), driven  *)
(*                    as its README describes, polling with the same       *)
(*                    listenToQueue of pkg/listener/queue.go;              *)
(*   "run"            the CLI's main/run of main.go, which polls with the  *)
(*                    CLI's own listenToQueue in a goroutine.              *)
(*                                                                         *)
(* The consumer either only reports what it is given, or (the test's       *)
(* ConsumerImpl, with ListenToTopic) cancels the listening context inside  *)
(* OnMessage.                                                              *)
(*                                                                         *)
(* Spec holds all three entry points; LibrarySpec holds the runs of the    *)
(* listener package, FairSpec the same runs with the fairness their        *)
(* scheduling gives; SetupSpec                                             *)
(* holds the startup alone, over every queue name, topic and polling       *)
(* interval, and adds the CLI's older createQueue of src/queue.go.         *)
(* createQueueInputs records each CreateQueue request, pollingInterval the *)
(* interval the poll loop is given, receiveMessageInputs each              *)
(* ReceiveMessage request; message is the message listenToQueue is         *)
(* handling and messages are those of the same receive still to handle.    *)
(*                                                                         *)
(* The AWS services are external: every call's outcome is chosen by the    *)
(* environment.  A call made with a cancelled context may additionally     *)
(* report cancellation (smithy.CanceledError).                             *)
(*                                                                         *)
(* log records every external call, every consumer callback and every      *)
(* cancellation in the order they happen.  An entry is a record            *)
(*   op   the call ("CreateQueue", ..., "OnMessage", "OnError", "cancel")  *)
(*   arg  the identifier the call addresses (parameter path, topic ARN,    *)
(*        queue URL, queue ARN, subscription ARN; for OnError the call     *)
(*        whose error is reported, for OnMessage the MessageContent)       *)
(*   res  "call" when a poll-loop call is issued, otherwise its outcome    *)
(*        "ok" | "empty" | "message" | "err" | "canceled"                  *)
(*   msg  the number of the message concerned, 0 when none                 *)
(*   ctxDone  whether the context handed to the call was cancelled then    *)
(***************************************************************************)
EXTENDS Integers, Sequences, FiniteSets, TLC

VARIABLES variant, consumer, pollingInterval, createQueueInputs,
          receiveMessageInputs, messages, cfg, pc, lpc, cancelled, timerFired, queueUrl,
          subscriptionArn, queueArn, defers, message, polls, startupErr,
          loopResult, teardownErr, log

vars == <<variant, consumer, pollingInterval, createQueueInputs,
          receiveMessageInputs, messages, cfg, pc, lpc, cancelled, timerFired, queueUrl,
          subscriptionArn, queueArn, defers, message, polls, startupErr,
          loopResult, teardownErr, log>>

\* Largest number of ReceiveMessage calls one run issues.
MaxPolls == 2

Variants == {"ListenToTopic", "Listener", "run"}

\* The entry points whose startup is examined over all configurations: the
\* three above and "oldRun", run of main.go with the createQueue of
\* src/queue.go, the CLI before it knew FIFO topics.
SetupVariants == Variants \cup {"oldRun"}

\* run of main.go, with either createQueue.
IsRun == variant \in {"run", "oldRun"}

\* time.Second, a time.Duration in nanoseconds.
Second == 1000000000

\* Values the services hand back.
ParameterValue == "arn:aws:sns:parameter-topic"
QueueUrlValue == "https://sqs/queue"
QueueArnValue == "arn:aws:sqs:queue"
SubscriptionArnValue == "arn:aws:sns:topic:subscription"

\* The topic ARN the caller configures.
ConfiguredTopicArn == "arn:aws:sns:topic"

\* The ARN of a FIFO topic.
FifoTopicArn == "arn:aws:sns:topic.fifo"

\* Queue names a caller may ask for: none, a valid one, one the service
\* rejects.
QueueNames == {"", "my-queue", "my queue"}

\* Polling intervals a caller may ask for.
Intervals == {0 - Second, 0 - 1, 0, 1, Second}

\* What uuid.NewString() may return.
Uuids == {"6ba7b810-9dad-41d1-80b4-00c04fd430c8",
          "f47ac10b-58cc-4372-a567-0e02b2c3d479"}

\* Configurations.  ListenToTopic and the CLI accept a parameter path, New
\* does not.  ListenToTopic is given PollingInterval (0 when left out) in its
\* configuration, New is given it as the option WithPollingInterval(d),
\* Opts = <<d>>, or no option at all, and the CLI has no interval to set.
ConfigsOver(v, paths, names, topics, intervals) ==
    {[ParameterPath |-> p, TopicArn |-> t, QueueName |-> n,
      PollingInterval |-> d, Opts |-> o] :
        p \in (IF v = "Listener" THEN {""} ELSE {""} \cup paths),
        t \in topics,
        n \in names,
        d \in (IF v = "ListenToTopic" THEN intervals ELSE {0}),
        o \in (IF v = "Listener" THEN {<<>>} \cup {<<i>> : i \in intervals}
                                 ELSE {<<>>})}

\* The configurations of the runs followed from startup to return: a queue
\* name the service accepts and one it refuses, one topic, no interval asked
\* for, and a parameter path for ListenToTopic (main has resolved the CLI's
\* before it calls run).
Configs(v) ==
    ConfigsOver(v, IF v = "ListenToTopic" THEN {"/sns-listener/topic-arn"} ELSE {},
                {"my-queue", "my queue"}, {ConfiguredTopicArn}, {0})

\* The configurations whose startup is examined.
SetupConfigs(v) ==
    ConfigsOver(v, {"/sns-listener/topic-arn"}, QueueNames,
                {ConfiguredTopicArn, FifoTopicArn}, Intervals)

Entry(op, arg, res, msg, done) ==
    [op |-> op, arg |-> arg, res |-> res, msg |-> msg, ctxDone |-> done]

\* Entry points whose poll loop is listenToQueue of pkg/listener/queue.go.
UsesPkgLoop == variant \in {"ListenToTopic", "Listener"}

\* Entry points that tear down with deferred calls.
UsesDefers == variant = "ListenToTopic" \/ IsRun

\* The context handed to setup calls: ListenToTopic passes its caller's
\* context on, Setup and run are given a background context.
SetupCtxDone == variant = "ListenToTopic" /\ cancelled

\* Consumers: one that only reports what it is given (the CLI's and the
\* README's), and the test's ConsumerImpl, whose OnMessage cancels the
\* context ListenToTopic was given.
Consumers(v) ==
    IF v = "ListenToTopic" THEN {"reports", "cancels"} ELSE {"reports"}

InitRest ==
    /\ consumer \in Consumers(variant)
    /\ pollingInterval = 0
    /\ createQueueInputs = <<>>
    /\ receiveMessageInputs = <<>>
    /\ messages = <<>>
    /\ pc = "start"
    /\ lpc = "idle"
    /\ cancelled = FALSE
    /\ timerFired = FALSE
    /\ queueUrl = ""
    /\ queueArn = ""
    /\ subscriptionArn = ""
    /\ defers = <<>>
    /\ message = 0
    /\ polls = 0
    /\ startupErr = "nil"
    /\ loopResult = "none"
    /\ teardownErr = {}
    /\ log = <<>>

Init ==
    /\ variant \in Variants
    /\ cfg \in Configs(variant)
    /\ InitRest

InitSetup ==
    /\ variant \in SetupVariants
    /\ cfg \in SetupConfigs(variant)
    /\ InitRest

----
\* Startup

\* A check that never sees the error.
FailedNever(res) == FALSE

\* if err != nil
Failed(res) == res # "ok"

\* A failed startup step whose error is not reported.
FailStartupNil(op) ==
    /\ startupErr' = "nil"
    /\ pc' = IF UsesDefers THEN "returning" ELSE "teardown"

\* A failed startup step that is followed by the teardown calls.
FailStartupTeardown(op) ==
    /\ startupErr' = op
    /\ pc' = "teardown"

\* A failed startup step that ends the process at once, deferred calls unrun.
FailStartupExit(op) ==
    /\ startupErr' = op
    /\ pc' = "done"

\* A failed startup step that is tried again.
FailStartupRetry(op) ==
    /\ startupErr' = op
    /\ pc' = pc

\* Where a failed startup step goes: ListenToTopic and run return the error
\* (their deferred calls run), a failed Setup is followed by Teardown.
FailStartup(op) ==
    /\ startupErr' = op
    /\ pc' = IF UsesDefers THEN "returning" ELSE "teardown"

\* The PollingInterval that the option WithPollingInterval(d) sets.
WithPollingInterval(d) == IF d <= 0 THEN Second ELSE d

\* New: every option is applied to the new Listener, whose PollingInterval
\* starts as the zero value.
New(opts) == IF opts = <<>> THEN 0 ELSE WithPollingInterval(opts[1])

\* The interval the poll loop is given: ListenToTopic replaces 0 by a
\* second, Listen passes the Listener's field on, and the CLI's consumer
\* answers GetPollingInterval with a second.
PollingInterval ==
    CASE variant = "ListenToTopic" ->
            IF cfg.PollingInterval = 0 THEN Second ELSE cfg.PollingInterval
      [] variant = "Listener" -> New(cfg.Opts)
      [] IsRun -> Second

\* The entry point begins: the polling interval is settled, then
\* if cfg.ParameterPath != "" { getParameter } ; createQueue
Start ==
    /\ pc = "start"
    /\ pollingInterval' = PollingInterval
    /\ pc' = IF cfg.ParameterPath # "" THEN "getParameter" ELSE "createQueue"
    /\ UNCHANGED <<variant, consumer, createQueueInputs,
                   receiveMessageInputs, messages,
                   cfg, lpc, cancelled, timerFired, queueUrl,
                   subscriptionArn, queueArn, defers, message, polls,
                   startupErr, loopResult, teardownErr, log>>

\* A lookup whose value is not stored in the configuration.
TopicArnAfterGetParameterKept == cfg.TopicArn

\* cfg.TopicArn = topicArn
TopicArnAfterGetParameter == ParameterValue

getParameter ==
    /\ pc = "getParameter"
    /\ \E res \in {"ok", "err"} :
        /\ log' = Append(log, Entry("GetParameter", cfg.ParameterPath, res, 0, SetupCtxDone))
        /\ IF ~Failed(res)
           THEN /\ cfg' = [cfg EXCEPT !.TopicArn = TopicArnAfterGetParameter]
                /\ pc' = "createQueue"
                /\ UNCHANGED startupErr
           ELSE /\ FailStartup("GetParameter")
                /\ UNCHANGED cfg
    /\ UNCHANGED <<variant, consumer, pollingInterval, createQueueInputs,
                   receiveMessageInputs, messages,
                   lpc, cancelled, timerFired, queueUrl,
                   subscriptionArn, queueArn, defers, message, polls,
                   loopResult, teardownErr>>

\* A createQueue after which deleteQueue is not deferred.
DefersAfterCreateQueueNone == defers

\* defer deleteQueue(...), registered as soon as the queue exists.
DefersAfterCreateQueue ==
    IF UsesDefers THEN <<"deleteQueue">> \o defers ELSE defers

\* strings.HasSuffix, and a regular expression "...$" matched against s.
HasSuffix(s, t) ==
    /\ Len(s) >= Len(t)
    /\ SubSeq(s, Len(s) - Len(t) + 1, Len(s)) = t

\* regexp.MatchString(`\.fifo$`, topicArn)
isTopicFIFO(topicArn) == HasSuffix(topicArn, ".fifo")

\* The characters [A-Za-z0-9_\-] of a queue name.
NameAlphabet == "ABCDEFGHIJKLMNOPQRSTUVWXYZabcdefghijklmnopqrstuvwxyz0123456789_-"
NameChars == {SubSeq(NameAlphabet, i, i) : i \in 1..Len(NameAlphabet)}
AllNameChars(s) == \A i \in 1..Len(s) : SubSeq(s, i, i) \in NameChars

\* The queue names the service accepts:
\* ^([A-Za-z0-9_\-]{1,80}|[A-Za-z0-9_\-]{1,75}\.fifo)$
ValidQueueName(n) ==
    \/ Len(n) \in 1..80 /\ AllNameChars(n)
    \/ /\ HasSuffix(n, ".fifo")
       /\ Len(n) - Len(".fifo") \in 1..75
       /\ AllNameChars(SubSeq(n, 1, Len(n) - Len(".fifo")))

\* A default name without its prefix.
DefaultQueueNameBare(u) == u

\* queueName = "sns-listener-" + uuid.NewString()
DefaultQueueName(u) == "sns-listener-" \o u

\* A policy that lets any source send.
QueuePolicyAnySource(topicArn) ==
    [Effect |-> "Allow", Service |-> "sns.amazonaws.com",
     Action |-> "sqs:SendMessage", Resource |-> "*", SourceArn |-> "*"]

\* queuePolicy: the statement allowing sns.amazonaws.com to send messages,
\* with the condition ArnEquals aws:SourceArn = topicArn.
QueuePolicy(topicArn) ==
    [Effect |-> "Allow", Service |-> "sns.amazonaws.com",
     Action |-> "sqs:SendMessage", Resource |-> "*", SourceArn |-> topicArn]

\* Whether this createQueue looks for a FIFO topic: the one of
\* pkg/listener and the CLI's later one do, the one of src/queue.go does not.
KnowsFifo(v) == v # "oldRun"

\* The sqs.CreateQueueInput that createQueue of entry point v sends for
\* queueName and topicArn, u being the UUID drawn when one is needed.
CreateQueueInput(v, queueName, topicArn, u) ==
    LET isFIFO == KnowsFifo(v) /\ isTopicFIFO(topicArn)
        named == IF queueName = "" THEN DefaultQueueName(u) ELSE queueName
        policy == "Policy" :> QueuePolicy(topicArn)
    IN  IF isFIFO
        THEN [QueueName |-> named \o ".fifo",
              Attributes |-> policy @@ ("FifoQueue" :> "true")
                                    @@ ("ContentBasedDeduplication" :> "true")]
        ELSE [QueueName |-> named, Attributes |-> policy]

\* What CreateQueue may answer: a name outside the pattern is refused.
CreateQueueOutcomes(input) ==
    IF ValidQueueName(input.QueueName) THEN {"ok", "err"} ELSE {"err"}

createQueue ==
    /\ pc = "createQueue"
    /\ \E u \in Uuids :
       \E res \in CreateQueueOutcomes(CreateQueueInput(variant, cfg.QueueName, cfg.TopicArn, u)) :
        /\ createQueueInputs' = Append(createQueueInputs,
                CreateQueueInput(variant, cfg.QueueName, cfg.TopicArn, u))
        /\ log' = Append(log, Entry("CreateQueue", cfg.TopicArn, res, 0, SetupCtxDone))
        /\ IF ~Failed(res)
           THEN /\ queueUrl' = QueueUrlValue
                /\ defers' = DefersAfterCreateQueue
                /\ pc' = "getQueueArn"
                /\ UNCHANGED startupErr
           ELSE /\ FailStartup("CreateQueue")
                /\ UNCHANGED <<queueUrl, defers>>
    /\ UNCHANGED <<variant, consumer, pollingInterval,
                   receiveMessageInputs, messages,
                   cfg, lpc, cancelled, timerFired, subscriptionArn,
                   queueArn, message, polls, loopResult, teardownErr>>

getQueueArn ==
    /\ pc = "getQueueArn"
    /\ \E res \in {"ok", "err"} :
        /\ log' = Append(log, Entry("GetQueueAttributes", queueUrl, res, 0, SetupCtxDone))
        /\ IF ~Failed(res)
           THEN /\ queueArn' = QueueArnValue
                /\ pc' = "subscribe"
                /\ UNCHANGED startupErr
           ELSE /\ FailStartup("GetQueueAttributes")
                /\ UNCHANGED queueArn
    /\ UNCHANGED <<variant, consumer, pollingInterval, createQueueInputs,
                   receiveMessageInputs, messages,
                   cfg, lpc, cancelled, timerFired, queueUrl,
                   subscriptionArn, defers, message, polls, loopResult,
                   teardownErr>>

\* A subscription after which nothing is deferred.
DefersAfterSubscribeNone == defers

\* Deferred calls that run in the order they were registered.
DefersAfterSubscribeQueued ==
    IF variant = "ListenToTopic" THEN defers \o <<"unsubscribe">>
    ELSE IF IsRun THEN defers \o <<"unsubscribe", "cancel">>
    ELSE defers

\* The deferred calls registered once the subscription exists, innermost
\* first: ListenToTopic defers unsubscribeFromTopic, run defers
\* unsubscribeFromTopic and then the cancel of its listening context.
DefersAfterSubscribe ==
    IF variant = "ListenToTopic" THEN <<"unsubscribe">> \o defers
    ELSE IF IsRun THEN <<"cancel", "unsubscribe">> \o defers
    ELSE defers

\* subscribeToTopic, and on success the entry into the poll loop:
\* ListenToTopic calls listenToQueue, the README's caller starts Listen in a
\* goroutine and waits for it, run starts listenToQueue in a goroutine and
\* waits for the interrupt signal.
subscribeToTopic ==
    /\ pc = "subscribe"
    /\ \E res \in {"ok", "err"} :
        /\ log' = Append(log, Entry("Subscribe", cfg.TopicArn, res, 0, SetupCtxDone))
        /\ IF ~Failed(res)
           THEN /\ subscriptionArn' = SubscriptionArnValue
                /\ defers' = DefersAfterSubscribe
                /\ pc' = IF IsRun THEN "waitSignal" ELSE "listen"
                /\ lpc' = "select"
                /\ UNCHANGED startupErr
           ELSE /\ FailStartup("Subscribe")
                /\ UNCHANGED <<subscriptionArn, defers, lpc>>
    /\ UNCHANGED <<variant, consumer, pollingInterval, createQueueInputs,
                   receiveMessageInputs, messages,
                   cfg, cancelled, timerFired, queueUrl, queueArn,
                   message, polls, loopResult, teardownErr>>

----
\* Poll loop

\* The channel of time.After(pollingInterval) becomes ready.
TimerFires ==
    /\ lpc = "select"
    /\ pc # "done"
    /\ ~timerFired
    /\ timerFired' = TRUE
    /\ UNCHANGED <<variant, consumer, pollingInterval, createQueueInputs,
                   receiveMessageInputs, messages,
                   cfg, pc, lpc, cancelled, queueUrl, subscriptionArn,
                   queueArn, defers, message, polls, startupErr, loopResult,
                   teardownErr, log>>

\* A timer case that is always ready.
TimerReadyAlways == TRUE

\* case <-time.After(pollingInterval): ready once the interval has elapsed.
TimerReady == timerFired

\* A select without the ctx.Done() case.
DoneReadyNever == FALSE

\* case <-ctx.Done(): ready once the listening context is cancelled.
DoneReady == cancelled

\* A loop that polls again while its DeleteMessage is still outstanding.
AtSelectOrDeleting == lpc \in {"select", "deleting"}

\* The one goroutine running the loop is at the select statement: what it
\* called before has returned.
AtSelect == lpc = "select"

\* MaxNumberOfMessages and VisibilityTimeout (seconds) of the receive.
MaxNumberOfMessages == 1
VisibilityTimeout == 60

\* A receive that asks for two messages at a time.
ReceiveMessageInputBatch(url) ==
    [QueueUrl |-> url, MessageAttributeNames |-> <<"All">>,
     MaxNumberOfMessages |-> 2, VisibilityTimeout |-> VisibilityTimeout]

\* &sqs.ReceiveMessageInput{...}
ReceiveMessageInput(url) ==
    [QueueUrl |-> url, MessageAttributeNames |-> <<"All">>,
     MaxNumberOfMessages |-> MaxNumberOfMessages,
     VisibilityTimeout |-> VisibilityTimeout]

\* select takes the timer case and issues ReceiveMessage.  When both cases
\* are ready Go chooses either, so SelectDone may be enabled too.
SelectReceive ==
    /\ AtSelect
    /\ pc # "done"
    /\ TimerReady
    /\ polls < MaxPolls
    /\ polls' = polls + 1
    /\ lpc' = "receiving"
    /\ receiveMessageInputs' = Append(receiveMessageInputs, ReceiveMessageInput(queueUrl))
    /\ log' = Append(log, Entry("ReceiveMessage", queueUrl, "call", 0, cancelled))
    /\ UNCHANGED <<variant, consumer, pollingInterval, createQueueInputs,
                   messages,
                   cfg, pc, cancelled, timerFired, queueUrl,
                   subscriptionArn, queueArn, defers, message, startupErr,
                   loopResult, teardownErr>>

\* select takes the ctx.Done() case: the loop returns (nil in pkg/listener).
SelectDone ==
    /\ lpc = "select"
    /\ pc # "done"
    /\ DoneReady
    /\ lpc' = "stopped"
    /\ loopResult' = "nil"
    /\ UNCHANGED <<variant, consumer, pollingInterval, createQueueInputs,
                   receiveMessageInputs, messages,
                   cfg, pc, cancelled, timerFired, queueUrl,
                   subscriptionArn, queueArn, defers, message, polls,
                   startupErr, teardownErr, log>>

\* Outcomes of a poll-loop call; only a cancelled context makes a call
\* report cancellation.
ReceiveOutcomes == {"empty", "message", "err"} \cup (IF cancelled THEN {"canceled"} ELSE {})
DeleteOutcomes == {"ok", "err"} \cup (IF cancelled THEN {"canceled"} ELSE {})

\* Back to the top of the for loop: a new timer is armed.
NextCycle ==
    /\ lpc' = "select"
    /\ timerFired' = FALSE

\* The message numbered m, as the queue hands it out.
Message(m) ==
    [MessageId |-> <<"id", m>>, Body |-> <<"body", m>>,
     ReceiptHandle |-> <<"handle", m>>]

\* A MessageContent that carries the message id in place of the body.
MessageContentIdOnly(received) ==
    [Body |-> received.MessageId, Id |-> received.MessageId]

\* MessageContent{Body: message.Body, Id: message.MessageId}
MessageContent(received) ==
    [Body |-> received.Body, Id |-> received.MessageId]

\* receiveResult.Messages of a receive that found messages: at least one
\* message and no more than the request allowed, numbered as handed out.
ReceiveMessageOutputs(input) ==
    {[k \in 1..n |-> (polls - 1) * input.MaxNumberOfMessages + k] :
        n \in 1..input.MaxNumberOfMessages}

\* for _, message := range receiveResult.Messages: the loop over the
\* messages received begins, and DeleteMessage is called for the first.
RangeMessages(got) ==
    /\ log' = log \o <<Entry("ReceiveMessage", queueUrl, "message", Head(got), cancelled),
                        Entry("DeleteMessage", queueUrl, "call", Head(got), cancelled)>>
    /\ lpc' = "deleting"
    /\ message' = Head(got)
    /\ messages' = Tail(got)

\* listenToQueue of pkg/listener/queue.go after ReceiveMessage returned.
PkgReceiveReturn(res) ==
    CASE res = "canceled" ->
            /\ log' = Append(log, Entry("ReceiveMessage", queueUrl, res, 0, cancelled))
            /\ lpc' = "stopped"
            /\ loopResult' = "nil"
            /\ UNCHANGED <<timerFired, message, messages>>
      [] res = "err" ->
            /\ log' = Append(log, Entry("ReceiveMessage", queueUrl, res, 0, cancelled))
            /\ lpc' = "stopped"
            /\ loopResult' = "ReceiveMessage"
            /\ UNCHANGED <<timerFired, message, messages>>
      [] res = "empty" ->
            /\ log' = Append(log, Entry("ReceiveMessage", queueUrl, res, 0, cancelled))
            /\ NextCycle
            /\ UNCHANGED <<loopResult, message, messages>>
      [] res = "message" ->
            /\ \E got \in ReceiveMessageOutputs(receiveMessageInputs[Len(receiveMessageInputs)]) :
                    RangeMessages(got)
            /\ UNCHANGED <<timerFired, loopResult>>

\* listenToQueue of the CLI after ReceiveMessage returned.
CliReceiveReturn(res) ==
    CASE res \in {"err", "canceled"} ->
            /\ log' = log \o <<Entry("ReceiveMessage", queueUrl, res, 0, cancelled),
                                Entry("OnError", "ReceiveMessage", res, 0, cancelled)>>
            /\ NextCycle
            /\ UNCHANGED <<loopResult, message, messages>>
      [] res = "empty" ->
            /\ log' = Append(log, Entry("ReceiveMessage", queueUrl, res, 0, cancelled))
            /\ NextCycle
            /\ UNCHANGED <<loopResult, message, messages>>
      [] res = "message" ->
            /\ \E got \in ReceiveMessageOutputs(receiveMessageInputs[Len(receiveMessageInputs)]) :
                    RangeMessages(got)
            /\ UNCHANGED <<timerFired, loopResult>>

ReceiveReturn ==
    /\ lpc = "receiving"
    /\ pc # "done"
    /\ \E res \in ReceiveOutcomes :
        IF UsesPkgLoop THEN PkgReceiveReturn(res) ELSE CliReceiveReturn(res)
    /\ UNCHANGED <<variant, consumer, pollingInterval, createQueueInputs,
                   receiveMessageInputs,
                   cfg, pc, cancelled, queueUrl, subscriptionArn,
                   queueArn, defers, polls, startupErr, teardownErr>>

\* A loop that hands the consumer its message twice.
OnMessageTwice(m) ==
    <<Entry("OnMessage", MessageContent(Message(m)), "ok", m, cancelled),
      Entry("OnMessage", MessageContent(Message(m)), "ok", m, cancelled)>>

\* A loop that hands the consumer a message it did not receive.
OnMessageOther(m) ==
    <<Entry("OnMessage", MessageContent(Message(m + 1)), "ok", m + 1, cancelled)>>

\* A loop that hands no message to the consumer.
OnMessageDropped(m) == <<>>

\* consumer.OnMessage(msgCtx, MessageContent{...}): the call, and the cancel
\* of the listening context when the consumer is the one that cancels.
OnMessage(m) ==
    <<Entry("OnMessage", MessageContent(Message(m)), "ok", m, cancelled)>> \o
    (IF consumer = "cancels"
     THEN <<Entry("cancel", "OnMessage", "ok", m, FALSE)>> ELSE <<>>)

\* The listening context after OnMessage returned.
CancelledAfterOnMessage == cancelled \/ consumer = "cancels"

\* The loop over the messages received goes on after OnMessage returned:
\* DeleteMessage is called for the next message, or, none being left, the
\* cycle is over.  entries are the calls and callbacks made for this message.
NextMessage(entries) ==
    /\ cancelled' = CancelledAfterOnMessage
    /\ IF messages = <<>>
       THEN /\ log' = log \o entries
            /\ message' = 0
            /\ NextCycle
            /\ UNCHANGED messages
       ELSE /\ log' = log \o entries \o
                    <<Entry("DeleteMessage", queueUrl, "call", Head(messages),
                            CancelledAfterOnMessage)>>
            /\ message' = Head(messages)
            /\ messages' = Tail(messages)
            /\ UNCHANGED <<lpc, timerFired>>

\* listenToQueue returns from inside the loop over the messages received.
ReturnFromRange(res, result) ==
    /\ log' = Append(log, Entry("DeleteMessage", queueUrl, res, message, cancelled))
    /\ lpc' = "stopped"
    /\ loopResult' = result
    /\ message' = 0
    /\ messages' = <<>>
    /\ UNCHANGED <<timerFired, cancelled>>

\* listenToQueue of pkg/listener/queue.go after DeleteMessage returned.
PkgDeleteReturn(res) ==
    CASE res = "canceled" -> ReturnFromRange(res, "nil")
      [] res = "err" -> ReturnFromRange(res, "DeleteMessage")
      [] res = "ok" ->
            /\ NextMessage(<<Entry("DeleteMessage", queueUrl, res, message, cancelled)>>
                            \o OnMessage(message))
            /\ UNCHANGED loopResult

\* listenToQueue of the CLI after DeleteMessage returned.
CliDeleteReturn(res) ==
    CASE res \in {"err", "canceled"} ->
            /\ NextMessage(<<Entry("DeleteMessage", queueUrl, res, message, cancelled),
                             Entry("OnError", "DeleteMessage", res, message, cancelled)>>
                            \o OnMessage(message))
            /\ UNCHANGED loopResult
      [] res = "ok" ->
            /\ NextMessage(<<Entry("DeleteMessage", queueUrl, res, message, cancelled)>>
                            \o OnMessage(message))
            /\ UNCHANGED loopResult

DeleteReturn ==
    /\ lpc = "deleting"
    /\ pc # "done"
    /\ \E res \in DeleteOutcomes :
        IF UsesPkgLoop THEN PkgDeleteReturn(res) ELSE CliDeleteReturn(res)
    /\ UNCHANGED <<variant, consumer, pollingInterval, createQueueInputs,
                   receiveMessageInputs,
                   cfg, pc, queueUrl, subscriptionArn,
                   queueArn, defers, polls, startupErr, teardownErr>>

----
\* Cancellation and teardown

\* The caller cancels the listening context: ListenToTopic's caller may do so
\* at any time before ListenToTopic returns, the README's caller of Listen
\* does so on the interrupt signal while Listen is running.
Cancel ==
    /\ ~cancelled
    /\ \/ variant = "ListenToTopic" /\ pc \notin {"returning", "done"}
       \/ variant = "Listener" /\ pc = "listen"
    /\ cancelled' = TRUE
    /\ log' = Append(log, Entry("cancel", "", "ok", 0, FALSE))
    /\ UNCHANGED <<variant, consumer, pollingInterval, createQueueInputs,
                   receiveMessageInputs, messages,
                   cfg, pc, lpc, timerFired, queueUrl,
                   subscriptionArn, queueArn, defers, message, polls,
                   startupErr, loopResult, teardownErr>>

\* listenToQueue has returned: ListenToTopic drops its result and returns
\* nil, the README's caller receives Listen's result and goes on to Teardown.
ListenReturn ==
    /\ pc = "listen"
    /\ lpc = "stopped"
    /\ pc' = IF variant = "ListenToTopic" THEN "returning" ELSE "teardown"
    /\ teardownErr' = {}
    /\ UNCHANGED <<variant, consumer, pollingInterval, createQueueInputs,
                   receiveMessageInputs, messages,
                   cfg, lpc, cancelled, timerFired, queueUrl,
                   subscriptionArn, queueArn, defers, message, polls,
                   startupErr, loopResult, log>>

\* run receives the interrupt signal and returns nil.
Signal ==
    /\ pc = "waitSignal"
    /\ pc' = "returning"
    /\ teardownErr' = {}
    /\ UNCHANGED <<variant, consumer, pollingInterval, createQueueInputs,
                   receiveMessageInputs, messages,
                   cfg, lpc, cancelled, timerFired, queueUrl,
                   subscriptionArn, queueArn, defers, message, polls,
                   startupErr, loopResult, log>>

\* A failed deferred call that keeps the remaining ones from running.
RemainingDefersAbort(ds, res) == IF res = "err" THEN <<>> ELSE Tail(ds)

\* Deferred calls run last-registered first, each whatever the one before
\* it returned.
RemainingDefers(ds, res) == Tail(ds)

\* Teardown handed the listening context.
TeardownCtxListening == cancelled

\* Whether the context given to the teardown calls is cancelled.
\* ListenToTopic defers them with context.Background(); run and the README's
\* caller of Teardown pass the parent context, of which the listening
\* context is a WithCancel child, and nothing cancels that parent.
TeardownCtxDone == FALSE

\* What Unsubscribe and DeleteQueue may answer for identifier id: the empty
\* identifier names nothing and is refused.
TeardownOutcomes(id) == IF id = "" THEN {"err"} ELSE {"ok", "err"}

\* Deferred calls that run as soon as they are registered.
DeferredCallsDueAtOnce == pc \notin {"start", "done"}

\* Deferred calls run when the function that registered them returns.
DeferredCallsDue == pc = "returning"

\* The returning function runs its next deferred call.  The deferred
\* teardown calls are given a context that is not cancelled, and what they
\* return is dropped.
RunDefer ==
    /\ DeferredCallsDue
    /\ defers # <<>>
    /\ \E res \in {"ok", "err"} :
        /\ CASE Head(defers) = "cancel" ->
                    /\ res = "ok"
                    /\ cancelled' = TRUE
                    /\ log' = Append(log, Entry("cancel", "", "ok", 0, FALSE))
             [] Head(defers) = "unsubscribe" ->
                    /\ log' = Append(log, Entry("Unsubscribe", subscriptionArn, res, 0, TeardownCtxDone))
                    /\ UNCHANGED cancelled
             [] Head(defers) = "deleteQueue" ->
                    /\ log' = Append(log, Entry("DeleteQueue", queueUrl, res, 0, TeardownCtxDone))
                    /\ UNCHANGED cancelled
        /\ defers' = RemainingDefers(defers, res)
    /\ UNCHANGED <<variant, consumer, pollingInterval, createQueueInputs,
                   receiveMessageInputs, messages,
                   cfg, pc, lpc, timerFired, queueUrl,
                   subscriptionArn, queueArn, message, polls, startupErr,
                   loopResult, teardownErr>>

\* All deferred calls have run: the function has returned.
Return ==
    /\ pc = "returning"
    /\ defers = <<>>
    /\ pc' = "done"
    /\ UNCHANGED <<variant, consumer, pollingInterval, createQueueInputs,
                   receiveMessageInputs, messages,
                   cfg, lpc, cancelled, timerFired, queueUrl,
                   subscriptionArn, queueArn, defers, message, polls,
                   startupErr, loopResult, teardownErr, log>>

\* if err != nil { return err } ... return nil
ErrorOf(res) == IF Failed(res) THEN "err" ELSE "nil"

\* What deleteQueue returns when DeleteQueue answered res: the error or nil
\* in pkg/listener, nothing in the CLI.
deleteQueue(res) == IF IsRun THEN "none" ELSE ErrorOf(res)

\* What unsubscribeFromTopic returns when Unsubscribe answered res: the
\* error or nil in the one Teardown calls, nothing in the one of
\* pkg/listener/topic.go, which ListenToTopic defers, and in the CLI's.
unsubscribeFromTopic(res) == IF variant = "Listener" THEN ErrorOf(res) ELSE "none"

\* errors.Join of what the two teardown operations returned; the empty set
\* is nil.
Join(eu, ed) ==
    (IF eu = "err" THEN {"Unsubscribe"} ELSE {}) \cup
    (IF ed = "err" THEN {"DeleteQueue"} ELSE {})

\* Listener.Teardown: unsubscribeFromTopic, then deleteQueue, with the
\* identifiers the Listener holds (empty when Setup did not get that far).
Teardown ==
    /\ pc = "teardown"
    /\ \E ru \in TeardownOutcomes(subscriptionArn), rd \in TeardownOutcomes(queueUrl) :
        /\ log' = log \o <<Entry("Unsubscribe", subscriptionArn, ru, 0, TeardownCtxDone),
                            Entry("DeleteQueue", queueUrl, rd, 0, TeardownCtxDone)>>
        /\ teardownErr' = Join(unsubscribeFromTopic(ru), deleteQueue(rd))
    /\ pc' = "done"
    /\ UNCHANGED <<variant, consumer, pollingInterval, createQueueInputs,
                   receiveMessageInputs, messages,
                   cfg, lpc, cancelled, timerFired, queueUrl,
                   subscriptionArn, queueArn, defers, message, polls,
                   startupErr, loopResult>>

Next ==
    \/ Start
    \/ getParameter
    \/ createQueue
    \/ getQueueArn
    \/ subscribeToTopic
    \/ TimerFires
    \/ SelectReceive
    \/ SelectDone
    \/ ReceiveReturn
    \/ DeleteReturn
    \/ Cancel
    \/ ListenReturn
    \/ Signal
    \/ RunDefer
    \/ Return
    \/ Teardown

Spec == Init /\ [][Next]_vars

\* The runs of the listener package on their own, with the scheduling the
\* code can rely on: the goroutine running ListenToTopic (or Setup, Listen
\* and Teardown in turn) keeps taking its next step, every call to a service
\* returns, the polling interval elapses, and a select whose ctx.Done() case
\* is ready again and again takes it in the end (Go picks uniformly among the
\* ready cases).  The caller's cancel is under no obligation to happen.
InitLibrary ==
    /\ Init
    /\ variant \in {"ListenToTopic", "Listener"}

NextLibrary ==
    \/ Start
    \/ getParameter
    \/ createQueue
    \/ getQueueArn
    \/ subscribeToTopic
    \/ TimerFires
    \/ SelectReceive
    \/ SelectDone
    \/ ReceiveReturn
    \/ DeleteReturn
    \/ Cancel
    \/ ListenReturn
    \/ RunDefer
    \/ Return
    \/ Teardown

Fairness ==
    /\ WF_vars(Start)
    /\ WF_vars(getParameter)
    /\ WF_vars(createQueue)
    /\ WF_vars(getQueueArn)
    /\ WF_vars(subscribeToTopic)
    /\ WF_vars(TimerFires)
    /\ WF_vars(SelectReceive)
    /\ SF_vars(SelectDone)
    /\ WF_vars(ReceiveReturn)
    /\ WF_vars(DeleteReturn)
    /\ WF_vars(ListenReturn)
    /\ WF_vars(RunDefer)
    /\ WF_vars(Return)
    /\ WF_vars(Teardown)

FairSpec == InitLibrary /\ [][NextLibrary]_vars /\ Fairness

\* The same runs of the listener package with no scheduling assumed, for
\* what is said of ListenToTopic, the Listener and their listenToQueue alone.
LibrarySpec == InitLibrary /\ [][NextLibrary]_vars

\* The startup of every entry point over all configurations: queue names,
\* plain and FIFO topics, polling intervals, with and without a parameter
\* path.
NextSetup ==
    \/ Start
    \/ getParameter
    \/ createQueue
    \/ getQueueArn
    \/ subscribeToTopic

SetupSpec == InitSetup /\ [][NextSetup]_vars

----
\* Reading the log

Has(op, res) == \E i \in DOMAIN log : log[i].op = op /\ log[i].res = res

Issued(op) == \E i \in DOMAIN log : log[i].op = op

\* Some entry before position i is the call op with outcome res.
Earlier(i, op, res) == \E j \in 1..(i - 1) : log[j].op = op /\ log[j].res = res

\* A run of the listener package: ListenToTopic, or Setup, Listen, Teardown.
LibraryRun == variant \in {"ListenToTopic", "Listener"}

\* The error the run reports: the startup error, else the teardown error.
RunError == IF startupErr # "nil" THEN {startupErr} ELSE teardownErr

----
\* Properties

\* C1: external calls are issued in the order GetParameter (only when a
\* parameter path is configured), CreateQueue, GetQueueAttributes, Subscribe,
\* ReceiveMessage, and each is issued only after the one before it returned
\* successfully.
C1_SetupOrder ==
    \A i \in DOMAIN log :
        /\ log[i].op = "GetParameter" =>
                /\ cfg.ParameterPath # ""
                /\ \A j \in 1..(i - 1) : log[j].op = "cancel"
        /\ log[i].op = "CreateQueue" =>
                (cfg.ParameterPath # "" => Earlier(i, "GetParameter", "ok"))
        /\ log[i].op = "GetQueueAttributes" => Earlier(i, "CreateQueue", "ok")
        /\ log[i].op = "Subscribe" => Earlier(i, "GetQueueAttributes", "ok")
        /\ log[i].op = "ReceiveMessage" => Earlier(i, "Subscribe", "ok")

\* A run with a parameter path has resolved it, set up and issued a receive.
C1_Witness ==
    /\ cfg.ParameterPath # ""
    /\ Has("GetParameter", "ok")
    /\ Has("ReceiveMessage", "call")

\* C2: when CreateQueue succeeded and Subscribe failed, the finished run has
\* issued DeleteQueue for the created queue after the failure and reports the
\* subscription failure as its startup error.
C2_QueueDeletedWhenSubscribeFails ==
    (pc = "done" /\ Has("CreateQueue", "ok") /\ Has("Subscribe", "err")) =>
        /\ startupErr = "Subscribe"
        /\ \E i \in DOMAIN log :
              /\ log[i].op = "DeleteQueue"
              /\ log[i].arg = QueueUrlValue
              /\ Earlier(i, "Subscribe", "err")

\* A finished run whose subscription failed and whose queue was deleted.
C2_Witness ==
    /\ pc = "done"
    /\ Has("Subscribe", "err")
    /\ Has("DeleteQueue", "ok")

\* C3: a finished run whose setup succeeded has attempted both Unsubscribe
\* and DeleteQueue, for the subscription and the queue it created, whatever
\* either of them returned.
C3_BothTeardownCallsAttempted ==
    (pc = "done" /\ Has("Subscribe", "ok")) =>
        /\ \E i \in DOMAIN log :
              log[i].op = "Unsubscribe" /\ log[i].arg = SubscriptionArnValue
        /\ \E i \in DOMAIN log :
              log[i].op = "DeleteQueue" /\ log[i].arg = QueueUrlValue

\* A finished run whose Unsubscribe failed and whose DeleteQueue was still made.
C3_Witness ==
    /\ pc = "done"
    /\ Has("Subscribe", "ok")
    /\ Has("Unsubscribe", "err")
    /\ Issued("DeleteQueue")

\* C4: a run of ListenToTopic, or of Setup, Listen and Teardown, whose setup
\* succeeded and that was stopped by cancellation reports a non-nil error
\* exactly when Unsubscribe or DeleteQueue failed.
C4_TeardownErrorReported ==
    (LibraryRun /\ pc = "done" /\ Has("Subscribe", "ok") /\ cancelled) =>
        (RunError # {} <=> (Has("Unsubscribe", "err") \/ Has("DeleteQueue", "err")))

\* C5: when both Unsubscribe and DeleteQueue failed, the error the finished
\* run of ListenToTopic, or of Setup, Listen and Teardown, reports contains
\* both failures.
C5_BothTeardownErrorsReported ==
    (LibraryRun /\ pc = "done" /\ Has("Unsubscribe", "err") /\ Has("DeleteQueue", "err")) =>
        {"Unsubscribe", "DeleteQueue"} \subseteq teardownErr

\* C6: a ReceiveMessage failure other than a cancellation is handed to
\* OnError and does not end the poll loop.
C6_ReceiveErrorReportedAndLoopContinues ==
    /\ \A i \in DOMAIN log :
          (log[i].op = "ReceiveMessage" /\ log[i].res = "err") =>
              /\ i < Len(log)
              /\ log[i + 1].op = "OnError"
              /\ log[i + 1].arg = "ReceiveMessage"
    /\ loopResult # "ReceiveMessage"

\* C7: a DeleteMessage failure other than a cancellation is handed to
\* OnError, after which OnMessage is invoked for the same message, and the
\* poll loop goes on.
C7_DeleteErrorThenDelivery ==
    /\ \A i \in DOMAIN log :
          (log[i].op = "DeleteMessage" /\ log[i].res = "err") =>
              /\ i + 2 <= Len(log)
              /\ log[i + 1].op = "OnError"
              /\ log[i + 2].op = "OnMessage"
              /\ log[i + 2].msg = log[i].msg
    /\ loopResult # "DeleteMessage"

\* C8 as claimed: once the listening context is cancelled no ReceiveMessage
\* call is started any more.
C8_NoReceiveAfterCancel ==
    \A i \in DOMAIN log :
        (log[i].op = "ReceiveMessage" /\ log[i].res = "call") => ~log[i].ctxDone

\* C8 amended: when the loop leaves its select with the context cancelled and
\* the polling interval not elapsed, it stops and starts no receive.
C8_StopsWhenOnlyDoneReady ==
    [][(lpc = "select" /\ cancelled /\ ~timerFired /\ lpc' # "select") =>
            (lpc' = "stopped" /\ log' = log)]_vars

\* The cancellation arrived while the loop waited, and the loop stopped before
\* the interval elapsed, without another receive.
C8_Witness ==
    /\ lpc = "stopped"
    /\ ~timerFired
    /\ Has("ReceiveMessage", "empty")
    /\ log[Len(log)].op = "cancel"

\* C9: a ReceiveMessage that fails because the context was cancelled stops
\* the poll loop with a nil result and is not handed to OnError.
C9_CancelledReceiveStopsSilently ==
    \A i \in DOMAIN log :
        (log[i].op = "ReceiveMessage" /\ log[i].res = "canceled") =>
            /\ lpc = "stopped"
            /\ loopResult = "nil"
            /\ ~(i < Len(log) /\ log[i + 1].op = "OnError")

\* C10: a DeleteMessage that fails because the context was cancelled stops
\* the poll loop, and neither OnMessage nor OnError is invoked for that
\* message.
C10_CancelledDeleteStopsSilently ==
    \A i \in DOMAIN log :
        (log[i].op = "DeleteMessage" /\ log[i].res = "canceled") =>
            /\ lpc = "stopped"
            /\ \A j \in DOMAIN log :
                  log[j].op \in {"OnMessage", "OnError"} => log[j].msg # log[i].msg

\* C11: the poll loop has stopped only when the listening context is
\* cancelled; a failed poll alone does not end it.
C11_StoppedOnlyWhenCancelled ==
    lpc = "stopped" => cancelled

\* C12: every Unsubscribe and every DeleteQueue is issued with a context
\* that is not cancelled, also after the listening context was cancelled.
C12_TeardownContextNotCancelled ==
    \A i \in DOMAIN log :
        log[i].op \in {"Unsubscribe", "DeleteQueue"} => ~log[i].ctxDone

\* The listening context is cancelled and both teardown calls were issued.
C12_Witness ==
    /\ cancelled
    /\ pc = "done"
    /\ Has("ReceiveMessage", "call")
    /\ Issued("Unsubscribe")
    /\ Issued("DeleteQueue")

\* C13: when resolving the configured parameter path fails, the run returns
\* that error and issues none of CreateQueue, Subscribe, ReceiveMessage,
\* Unsubscribe and DeleteQueue.
C13_ParameterFailureStopsRun ==
    Has("GetParameter", "err") =>
        /\ startupErr = "GetParameter"
        /\ \A op \in {"CreateQueue", "Subscribe", "ReceiveMessage",
                       "Unsubscribe", "DeleteQueue"} : ~Issued(op)

\* A run whose parameter lookup failed has returned.
C13_Witness ==
    /\ cfg.ParameterPath # ""
    /\ Has("GetParameter", "err")
    /\ pc = "done"

\* C14: with a parameter path configured, CreateQueue and Subscribe are given
\* the resolved parameter value and not the configured topic ARN; with none
\* configured, GetParameter is never called and they are given the
\* configured topic ARN.
C14_TopicArnSource ==
    /\ \A i \in DOMAIN log :
        log[i].op \in {"CreateQueue", "Subscribe"} =>
            log[i].arg = IF cfg.ParameterPath # "" THEN ParameterValue
                         ELSE ConfiguredTopicArn
    /\ cfg.ParameterPath = "" => ~Issued("GetParameter")

\* A run with a parameter path has created its queue and subscribed.
C14_Witness ==
    /\ cfg.ParameterPath # ""
    /\ Has("CreateQueue", "ok")
    /\ Has("Subscribe", "ok")

\* C15: Unsubscribe is issued only after a Subscribe that succeeded and
\* DeleteQueue only after a CreateQueue that succeeded, in every run and
\* also when Teardown follows a failed Setup.
C15_TeardownOnlyOfCreated ==
    \A i \in DOMAIN log :
        /\ log[i].op = "Unsubscribe" => Earlier(i, "Subscribe", "ok")
        /\ log[i].op = "DeleteQueue" => Earlier(i, "CreateQueue", "ok")

\* The startup calls.
StartupOps == {"GetParameter", "CreateQueue", "GetQueueAttributes", "Subscribe"}

\* C16: the startup error is non-nil exactly when the parameter lookup, the
\* queue creation, the queue-ARN fetch or the subscription failed, and then
\* the poll loop is never entered: no ReceiveMessage is issued and the
\* consumer is never invoked.
C16_StartupErrorIffStepFailed ==
    /\ startupErr # "nil" <=> \E op \in StartupOps : Has(op, "err")
    /\ startupErr # "nil" =>
        /\ Has(startupErr, "err")
        /\ lpc = "idle"
        /\ \A op \in {"ReceiveMessage", "DeleteMessage", "OnMessage", "OnError"} :
                ~Issued(op)

\* A run whose queue-ARN fetch failed has ended.
C16_Witness ==
    /\ startupErr = "GetQueueAttributes"
    /\ pc = "done"

\* Number of log entries of call op with outcome res.
Count(op, res) == Cardinality({i \in DOMAIN log : log[i].op = op /\ log[i].res = res})

\* The test's setting: ListenToTopic with the consumer that cancels inside
\* OnMessage, no other cancel, and services that accept every call.
CancellingConsumerRun ==
    /\ variant = "ListenToTopic"
    /\ consumer = "cancels"
    /\ \A i \in DOMAIN log :
        /\ log[i].res \notin {"err", "canceled"}
        /\ log[i].op = "cancel" => log[i].arg = "OnMessage"

\* C17 as stated: with the cancelling consumer and accepting services,
\* OnMessage is never invoked a second time.
C17_NoSecondOnMessage ==
    CancellingConsumerRun => Count("OnMessage", "ok") <= 1

\* C17: with the cancelling consumer, accepting services and a queue that
\* hands out one message and none after it, OnMessage is invoked at most
\* once; every ReceiveMessage after it is issued with the cancelled context;
\* and the run that has returned invoked it exactly once, stopped the loop
\* with nil and issued Unsubscribe and DeleteQueue after it.
C17_OneMessageOneOnMessage ==
    (CancellingConsumerRun /\ Count("ReceiveMessage", "message") <= 1) =>
        /\ Count("OnMessage", "ok") <= 1
        /\ \A i, j \in DOMAIN log :
            (log[i].op = "OnMessage" /\ i < j /\ log[j].op = "ReceiveMessage")
                => log[j].ctxDone
        /\ (pc = "done" /\ Has("ReceiveMessage", "message")) =>
            /\ Count("OnMessage", "ok") = 1
            /\ lpc = "stopped" /\ loopResult = "nil"
            /\ \A i \in DOMAIN log : log[i].op = "OnMessage" =>
                \E j, k \in DOMAIN log :
                    /\ i < j /\ j < k
                    /\ log[j].op = "Unsubscribe"
                    /\ log[k].op = "DeleteQueue"

\* Such a run has returned after its one OnMessage and a further poll that
\* found the queue empty.
C17_Witness ==
    /\ CancellingConsumerRun
    /\ pc = "done"
    /\ Count("OnMessage", "ok") = 1
    /\ Count("ReceiveMessage", "message") = 1
    /\ \E j \in DOMAIN log :
        log[j].op = "ReceiveMessage" /\ log[j].res = "empty" /\ log[j].ctxDone
    /\ Has("DeleteQueue", "ok")

\* C18: once the listening context is cancelled while the run is listening,
\* the run ends: the poll loop has stopped, Unsubscribe and DeleteQueue have
\* been issued and the run has returned.
C18_TerminatesAfterCancel ==
    (cancelled /\ pc = "listen") ~>
        (pc = "done" /\ lpc = "stopped"
            /\ Issued("Unsubscribe") /\ Issued("DeleteQueue"))

\* A run cancelled by its caller while listening has ended after teardown.
C18_Witness ==
    /\ pc = "done"
    /\ lpc = "stopped"
    /\ \E i, j, k \in DOMAIN log :
        /\ i < j /\ j < k
        /\ log[i].op = "cancel" /\ log[i].arg = ""
        /\ Earlier(i, "Subscribe", "ok")
        /\ log[j].op = "Unsubscribe"
        /\ log[k].op = "DeleteQueue"

\* C19: in a run of the listener package every failure that is not a
\* cancellation is surfaced: a failed ReceiveMessage or DeleteMessage is
\* followed by an OnError naming it, and a failed Unsubscribe or DeleteQueue
\* is part of the error the finished run reports.
C19_EveryErrorSurfaced ==
    LibraryRun =>
        /\ \A i \in DOMAIN log :
            (log[i].op \in {"ReceiveMessage", "DeleteMessage"} /\ log[i].res = "err")
                => \E j \in DOMAIN log :
                    j > i /\ log[j].op = "OnError" /\ log[j].arg = log[i].op
        /\ pc = "done" =>
            \A op \in {"Unsubscribe", "DeleteQueue"} :
                Has(op, "err") => op \in RunError

\* The call history from position i on keeps to one operation at a time,
\* out being the poll-loop call outstanding before position i ("" for none):
\* a call is issued and a callback is made only when none is outstanding,
\* and a call that returns is the one outstanding.
RECURSIVE OneAtATime(_, _)
OneAtATime(i, out) ==
    IF i > Len(log) THEN TRUE
    ELSE IF log[i].op \in {"ReceiveMessage", "DeleteMessage"}
         THEN IF log[i].res = "call"
              THEN out = "" /\ OneAtATime(i + 1, log[i].op)
              ELSE out = log[i].op /\ OneAtATime(i + 1, "")
    ELSE IF log[i].op \in {"OnMessage", "OnError"}
         THEN out = "" /\ OneAtATime(i + 1, out)
    ELSE OneAtATime(i + 1, out)

\* C20: the poll loop starts a ReceiveMessage or DeleteMessage only when no
\* earlier call of the loop is outstanding, it invokes the consumer only
\* when none is, and a call that returns is the one outstanding.
C20_OneOperationInFlight == OneAtATime(1, "")

\* Two polls of one run, the first with a message that was deleted and
\* delivered.
C20_Witness ==
    /\ Count("ReceiveMessage", "call") = 2
    /\ Has("DeleteMessage", "ok")
    /\ Has("OnMessage", "ok")
    /\ lpc = "receiving"

\* C21: the interval the poll loop is given is positive; it is a second when
\* none was asked for and when the one asked for is zero or negative.
C21_PollingIntervalPositive ==
    (pc # "start" /\ ~IsRun) =>
        LET asked == IF variant = "Listener" THEN cfg.Opts
                     ELSE IF cfg.PollingInterval = 0 THEN <<>>
                     ELSE <<cfg.PollingInterval>>
        IN  /\ pollingInterval > 0
            /\ asked = <<>> => pollingInterval = Second
            /\ (asked # <<>> /\ asked[1] <= 0) => pollingInterval = Second

\* The names createQueue may start from: the one asked for, or a default.
BaseQueueNames ==
    IF cfg.QueueName = "" THEN {"sns-listener-" \o u : u \in Uuids}
    ELSE {cfg.QueueName}

\* C22: for a topic identifier ending in ".fifo" the name sent to
\* CreateQueue ends in ".fifo" and the attributes hold FifoQueue = "true" and
\* ContentBasedDeduplication = "true"; for any other topic identifier the
\* name has no suffix added and neither attribute is set.
C22_FifoNameAndAttributes ==
    \A i \in DOMAIN createQueueInputs :
        LET input == createQueueInputs[i]
            keys == DOMAIN input.Attributes
        IN  IF HasSuffix(cfg.TopicArn, ".fifo")
            THEN /\ HasSuffix(input.QueueName, ".fifo")
                 /\ {"FifoQueue", "ContentBasedDeduplication"} \subseteq keys
                 /\ input.Attributes["FifoQueue"] = "true"
                 /\ input.Attributes["ContentBasedDeduplication"] = "true"
            ELSE /\ input.QueueName \in BaseQueueNames
                 /\ keys \cap {"FifoQueue", "ContentBasedDeduplication"} = {}

\* C23: createQueue of pkg/listener (and the CLI's createQueue that knows
\* FIFO topics) sends, when no queue name is asked for, "sns-listener-"
\* followed by the UUID it drew, and otherwise the name asked for; in both
\* cases with ".fifo" appended for a FIFO topic and nothing else appended.
C23_QueueNameSent ==
    KnowsFifo(variant) =>
        \A i \in DOMAIN createQueueInputs :
            LET sent == createQueueInputs[i].QueueName
                suffix == IF HasSuffix(cfg.TopicArn, ".fifo") THEN ".fifo" ELSE ""
            IN  IF cfg.QueueName = ""
                THEN \E u \in Uuids : sent = ("sns-listener-" \o u) \o suffix
                ELSE sent = cfg.QueueName \o suffix

\* A queue was created under a default name for a FIFO topic.
C23_Witness ==
    /\ KnowsFifo(variant)
    /\ cfg.QueueName = ""
    /\ HasSuffix(cfg.TopicArn, ".fifo")
    /\ Len(createQueueInputs) = 1
    /\ Has("CreateQueue", "ok")

\* C24: when CreateQueue fails, as it does for a queue name outside the
\* pattern, createQueue returns the error and no queue URL, and the run of
\* ListenToTopic or of the CLI issues no GetQueueAttributes, Subscribe,
\* ReceiveMessage, Unsubscribe or DeleteQueue.
C24_CreateQueueFailureStopsRun ==
    variant # "Listener" =>
        /\ \A i \in DOMAIN createQueueInputs :
            ~ValidQueueName(createQueueInputs[i].QueueName)
                => ~Has("CreateQueue", "ok")
        /\ Has("CreateQueue", "err") =>
            /\ queueUrl = ""
            /\ startupErr = "CreateQueue"
            /\ \A op \in {"GetQueueAttributes", "Subscribe", "ReceiveMessage",
                           "Unsubscribe", "DeleteQueue"} : ~Issued(op)

\* ListenToTopic has returned after CreateQueue refused its queue name.
C24_Witness ==
    /\ variant = "ListenToTopic"
    /\ ~ValidQueueName(cfg.QueueName)
    /\ Has("CreateQueue", "err")
    /\ pc = "done"

\* From position i on, every DeleteMessage and every OnMessage of the call
\* history is about a message in got, the messages the latest ReceiveMessage
\* before position i returned (none while it is outstanding, none when it
\* failed or found the queue empty).
RECURSIVE OnlyReceived(_, _)
OnlyReceived(i, got) ==
    IF i > Len(log) THEN TRUE
    ELSE IF log[i].op = "ReceiveMessage"
         THEN OnlyReceived(i + 1, IF log[i].res = "message" THEN {log[i].msg} ELSE {})
    ELSE IF log[i].op \in {"DeleteMessage", "OnMessage"}
         THEN log[i].msg \in got /\ OnlyReceived(i + 1, got)
    ELSE OnlyReceived(i + 1, got)

\* C25: every OnMessage is for a message the latest ReceiveMessage of the
\* run returned; after a ReceiveMessage that failed or returned no message
\* there is no DeleteMessage and no OnMessage until the next ReceiveMessage
\* has returned one; and there are never more OnMessage invocations than
\* messages received.
C25_OnMessageOnlyForReceived ==
    /\ OnlyReceived(1, {})
    /\ Count("OnMessage", "ok") <= Count("ReceiveMessage", "message")

\* A poll that found nothing, then a poll whose message was delivered.
C25_Witness ==
    \E i, j, k \in DOMAIN log :
        /\ i < j /\ j < k
        /\ log[i].op = "ReceiveMessage" /\ log[i].res = "empty"
        /\ log[j].op = "ReceiveMessage" /\ log[j].res = "message"
        /\ log[k].op = "OnMessage" /\ log[k].msg = log[j].msg

\* C26: in a run of the listener package a delivered message is handed to
\* OnMessage before DeleteMessage is called for it.
C26_OnMessageBeforeDelete ==
    LibraryRun =>
        \A i \in DOMAIN log :
            log[i].op = "OnMessage" =>
                \A j \in 1..(i - 1) :
                    ~(log[j].op = "DeleteMessage" /\ log[j].msg = log[i].msg)

\* Positions of the log entries of call op about message m.
About(op, m) == {i \in DOMAIN log : log[i].op = op /\ log[i].msg = m}

C28_TeardownOperationsReturnError ==
    LibraryRun =>
        \A i \in DOMAIN log :
            /\ log[i].op = "DeleteQueue" =>
                deleteQueue(log[i].res) = IF log[i].res = "err" THEN "err" ELSE "nil"
            /\ log[i].op = "Unsubscribe" =>
                unsubscribeFromTopic(log[i].res)
                    = IF log[i].res = "err" THEN "err" ELSE "nil"

\* C29: Teardown called after a failed Setup destroys what Setup created and
\* nothing else: after a Setup that failed at the queue-ARN fetch or at
\* Subscribe it calls DeleteQueue for the created queue, and after a Setup
\* that failed at CreateQueue it reports no error.
C29_TeardownAfterFailedSetup ==
    (variant = "Listener" /\ pc = "done") =>
        /\ startupErr \in {"GetQueueAttributes", "Subscribe"} =>
            \E i \in DOMAIN log :
                log[i].op = "DeleteQueue" /\ log[i].arg = QueueUrlValue
        /\ startupErr = "CreateQueue" => teardownErr = {}

\* C30: every CreateQueue request carries a Policy attribute, for FIFO and
\* other topics alike, that lets sns.amazonaws.com send messages on the
\* condition that the source ARN is the topic identifier, and that
\* identifier is the one the run passes to Subscribe.
C30_PolicyScopedToSubscribedTopic ==
    \A i \in DOMAIN createQueueInputs :
        LET attributes == createQueueInputs[i].Attributes
        IN  /\ "Policy" \in DOMAIN attributes
            /\ attributes["Policy"].Service = "sns.amazonaws.com"
            /\ attributes["Policy"].Action = "sqs:SendMessage"
            /\ attributes["Policy"].SourceArn = cfg.TopicArn
            /\ \A j \in DOMAIN log :
                log[j].op = "Subscribe" =>
                    log[j].arg = attributes["Policy"].SourceArn

\* A queue was created for a FIFO topic and subscribed to it.
C30_Witness ==
    /\ HasSuffix(cfg.TopicArn, ".fifo")
    /\ Len(createQueueInputs) = 1
    /\ "FifoQueue" \in DOMAIN createQueueInputs[1].Attributes
    /\ Has("Subscribe", "ok")

\* C31: in the teardown of a run whose setup succeeded, Unsubscribe has been
\* issued and has returned, whatever it returned, before DeleteQueue is
\* issued.
C31_UnsubscribeBeforeDeleteQueue ==
    Has("Subscribe", "ok") =>
        \A i \in DOMAIN log :
            log[i].op = "DeleteQueue" =>
                \E j \in 1..(i - 1) :
                    /\ log[j].op = "Unsubscribe"
                    /\ log[j].arg = SubscriptionArnValue
                    /\ log[j].res \in {"ok", "err"}

\* A run that polled was cancelled, then unsubscribed and deleted its queue.
C31_Witness ==
    /\ Has("Subscribe", "ok")
    /\ Has("ReceiveMessage", "empty")
    /\ Has("Unsubscribe", "ok")
    /\ Has("DeleteQueue", "ok")
    /\ log[Len(log)].op = "DeleteQueue"

\* C32: when CreateQueue succeeded and the fetch of the queue ARN failed, the
\* run of ListenToTopic or of the CLI issues neither Subscribe nor
\* Unsubscribe, and once it has returned it has issued DeleteQueue for the
\* created queue, after the failed fetch, and reports the fetch failure as
\* its startup error.
C32_QueueDeletedWhenArnFetchFails ==
    (variant # "Listener" /\ Has("CreateQueue", "ok") /\ Has("GetQueueAttributes", "err")) =>
        /\ ~Issued("Subscribe")
        /\ ~Issued("Unsubscribe")
        /\ startupErr = "GetQueueAttributes"
        /\ pc = "done" =>
            \E i \in DOMAIN log :
                /\ log[i].op = "DeleteQueue"
                /\ log[i].arg = QueueUrlValue
                /\ Earlier(i, "GetQueueAttributes", "err")

\* ListenToTopic has returned after a failed fetch of the queue ARN, its
\* queue deleted.
C32_Witness ==
    /\ variant = "ListenToTopic"
    /\ pc = "done"
    /\ Has("GetQueueAttributes", "err")
    /\ Has("DeleteQueue", "ok")
    /\ ~Issued("Subscribe")

\* C33: a teardown call is issued only once setup is over: before every
\* Unsubscribe and every DeleteQueue either Subscribe has succeeded or a
\* setup step has failed.
C33_NoTeardownDuringSetup ==
    \A i \in DOMAIN log :
        log[i].op \in {"Unsubscribe", "DeleteQueue"} =>
            \/ Earlier(i, "Subscribe", "ok")
            \/ \E op \in StartupOps : Earlier(i, op, "err")

\* The CLI has set up, was interrupted and has torn down.
C33_Witness ==
    /\ variant = "run"
    /\ pc = "done"
    /\ Has("Subscribe", "ok")
    /\ Has("Unsubscribe", "ok")
    /\ Has("DeleteQueue", "ok")

\* C34: where the poll loop runs in a goroutine of its own (the CLI, and
\* Listen as the README starts it), no ReceiveMessage and no DeleteMessage is
\* issued or outstanding once Unsubscribe or DeleteQueue has been issued.
C34_NoPollAfterTeardownStarted ==
    variant # "ListenToTopic" =>
        \A i \in DOMAIN log :
            log[i].op \in {"Unsubscribe", "DeleteQueue"} =>
                \A j \in (i + 1)..Len(log) :
                    log[j].op \notin {"ReceiveMessage", "DeleteMessage"}

\* The setup and teardown calls.
SetupTeardownOps ==
    {"GetParameter", "CreateQueue", "GetQueueAttributes", "Subscribe",
     "Unsubscribe", "DeleteQueue"}

\* From position i on, the call history holds no setup or teardown call that
\* is in seen, the calls issued before position i, and none twice.
RECURSIVE IssuedOnce(_, _)
IssuedOnce(i, seen) ==
    IF i > Len(log) THEN TRUE
    ELSE IF log[i].op \in SetupTeardownOps
         THEN log[i].op \notin seen /\ IssuedOnce(i + 1, seen \cup {log[i].op})
    ELSE IssuedOnce(i + 1, seen)

\* C35: within one run GetParameter, CreateQueue, GetQueueAttributes,
\* Subscribe, Unsubscribe and DeleteQueue are each issued at most once,
\* whatever they return.
C35_NoRetry == IssuedOnce(1, {})

\* A run has issued all six calls, and both teardown calls failed.
C35_Witness ==
    /\ pc = "done"
    /\ Has("GetParameter", "ok")
    /\ Has("Subscribe", "ok")
    /\ Has("Unsubscribe", "err")
    /\ Has("DeleteQueue", "err")

\* C36: in a run of the listener package every DeleteQueue is given the
\* queue URL that the run's CreateQueue returned, every Unsubscribe the
\* subscription ARN that its Subscribe returned, and every ReceiveMessage
\* and DeleteMessage that same queue URL.
C36_TeardownTargetsOwnResources ==
    LibraryRun =>
        \A i \in DOMAIN log :
            /\ log[i].op = "DeleteQueue" =>
                Has("CreateQueue", "ok") /\ log[i].arg = QueueUrlValue
            /\ log[i].op = "Unsubscribe" =>
                Has("Subscribe", "ok") /\ log[i].arg = SubscriptionArnValue
            /\ log[i].op \in {"ReceiveMessage", "DeleteMessage"} =>
                Has("CreateQueue", "ok") /\ log[i].arg = QueueUrlValue

\* The queue this run created is still there: CreateQueue succeeded and no
\* DeleteQueue for its URL has.
QueueExists ==
    /\ Has("CreateQueue", "ok")
    /\ ~\E i \in DOMAIN log :
          log[i].op = "DeleteQueue" /\ log[i].arg = QueueUrlValue /\ log[i].res = "ok"

\* The subscription this run created is still there.
SubscriptionExists ==
    /\ Has("Subscribe", "ok")
    /\ ~\E i \in DOMAIN log :
          /\ log[i].op = "Unsubscribe"
          /\ log[i].arg = SubscriptionArnValue
          /\ log[i].res = "ok"

\* C37: when a run has ended, after a startup step failed or after it was
\* stopped, and no DeleteQueue and no Unsubscribe it issued has failed, then
\* neither the queue nor the subscription it created still exists.
C37_NoLeakWhenTeardownSucceeds ==
    (pc = "done" /\ ~Has("DeleteQueue", "err") /\ ~Has("Unsubscribe", "err")) =>
        /\ ~QueueExists
        /\ ~SubscriptionExists

\* A Listener that polled, was cancelled and was torn down without error:
\* what it created is gone.
C37_Witness ==
    /\ variant = "Listener"
    /\ pc = "done"
    /\ cancelled
    /\ Has("CreateQueue", "ok")
    /\ Has("Subscribe", "ok")
    /\ ~Has("DeleteQueue", "err")
    /\ ~Has("Unsubscribe", "err")
    /\ ~QueueExists
    /\ ~SubscriptionExists

\* From position i on, every poll cycle of the call history hands at most
\* one message to OnMessage, and hands it the body and the id of the message
\* its ReceiveMessage returned: delivered is the number of OnMessage
\* invocations since the latest ReceiveMessage was issued, got the message
\* that receive returned (0 for none).
RECURSIVE OneDeliveryPerCycle(_, _, _)
OneDeliveryPerCycle(i, delivered, got) ==
    IF i > Len(log) THEN TRUE
    ELSE IF log[i].op = "ReceiveMessage"
         THEN IF log[i].res = "call"
              THEN OneDeliveryPerCycle(i + 1, 0, 0)
              ELSE OneDeliveryPerCycle(i + 1, delivered, log[i].msg)
    ELSE IF log[i].op = "OnMessage"
         THEN /\ delivered = 0
              /\ got # 0
              /\ log[i].arg = [Body |-> Message(got).Body, Id |-> Message(got).MessageId]
              /\ OneDeliveryPerCycle(i + 1, delivered + 1, got)
    ELSE OneDeliveryPerCycle(i + 1, delivered, got)

\* C38: every poll cycle issues one ReceiveMessage, for this run's queue,
\* asking for at most 1 message with a visibility timeout of 60 seconds; a
\* cycle invokes OnMessage at most once; and the MessageContent it passes
\* holds the body and the message id of the message that receive returned.
C38_OneReceiveOneMessagePerCycle ==
    /\ Len(receiveMessageInputs) = polls
    /\ \A i \in DOMAIN receiveMessageInputs :
        /\ receiveMessageInputs[i].QueueUrl = QueueUrlValue
        /\ receiveMessageInputs[i].MaxNumberOfMessages <= 1
        /\ receiveMessageInputs[i].VisibilityTimeout = 60
    /\ OneDeliveryPerCycle(1, 0, 0)

\* A second cycle of listenToQueue of pkg/listener has delivered the message
\* its receive returned.
C38_Witness ==
    /\ UsesPkgLoop
    /\ Len(receiveMessageInputs) = 2
    /\ log[Len(log)].op = "OnMessage"
    /\ log[Len(log)].msg = 2
    /\ log[Len(log)].arg.Id = Message(2).MessageId
    /\ log[Len(log)].arg.Body = Message(2).Body

====
